---- MODULE Spec2Model ----
(***************************************************************************)
(* libconway: Conway's Game of Life on a fixed toroidal grid, computed by  *)
(* a GPU kernel over two storage buffers (input_buffer = current,          *)
(* output_buffer = next) with a staging buffer for host readback, seeded   *)
(* by the pattern generators of generate.rs.                               *)
(*                                                                         *)
(* Buffers are sequences of cells; cell index i (0-based, row-major        *)
(* y*width + x) is element i+1 of the sequence.  All arithmetic stays far  *)
(* below 2^32 within the bounds below, so u32 wrap-around never occurs.    *)
(***************************************************************************)
EXTENDS Integers, Sequences, FiniteSets, TLC

VARIABLES
    pc,              \* "start" | "generated" | "panicked" | "engine"
    config,          \* Config {width, height}
    desc,            \* generator descriptor being evaluated
    data,            \* Vec<u32> produced by the generator / passed to Life::new
    panic,           \* panic message of an aborted call, or "none"
    input_buffer,    \* Life.input_buffer  (current)
    output_buffer,   \* Life.output_buffer (next)
    staging_buffer,  \* Life.staging_buffer (host-mappable)
    data_size,       \* Life.data_size, in bytes
    steps,           \* number of step() calls so far
    result,          \* grid returned by the last output() of this loop iteration
    evals,           \* log of Random evaluations, as <<p, grid>>
    init_next,       \* cells of output_buffer no kernel invocation has written
    init_seen,       \* cells of input/staging that received such a cell
    queue,           \* commands submitted to the Queue, not yet started
    gpu,             \* the command the device is executing, or Idle
    map_state,       \* staging_buffer: "unmapped" | "pending" | "mapped"
    out_pc,          \* position inside output(): "idle" | "poll" | "receive"
    notify,          \* what receiver.receive() will yield, or "none"
    gen_in,          \* number of the step whose result input_buffer holds
    gen_out,         \* ... output_buffer holds (-1: as created)
    gen_staging      \* ... staging_buffer holds (-1: as created)

ghostvars == <<init_next, init_seen>>

gpuvars == <<queue, gpu, map_state, out_pc, notify>>

genvars == <<gen_in, gen_out, gen_staging>>

vars == <<pc, config, desc, data, panic, input_buffer, output_buffer,
          staging_buffer, data_size, steps, result, evals,
          init_next, init_seen, queue, gpu, map_state, out_pc, notify,
          gen_in, gen_out, gen_staging>>

(***************************** program constants ***************************)
WORKGROUP_SIZE_X == 8
WORKGROUP_SIZE_Y == 8
SIZE_OF_U32 == 4

(********************************* bounds **********************************)
MaxGroups == 2      \* workgroups along the tiled axis of an engine config
MaxRem == 1         \* cells beyond the last whole tile of an engine config
MaxSteps == 2       \* step() calls explored
GenMaxWidth == 3    \* widest grid handed to a generator on its own
GenMaxHeight == 2   \* tallest grid handed to a generator on its own
MaxPositions == 2   \* entries of a RawData position list
MaxCoord == 1       \* largest x or y of a RawData position
MaxOffset == 1      \* largest x_offset or y_offset
MaxText == 4        \* characters of a Plaintext source file
MaxDataLen == 4     \* cells of a Vec handed straight to Life::new
MaxEvals == 2       \* evaluations of the Random generator that are compared

(******************************** helpers **********************************)
None == <<-1>>

NoDesc == [kind |-> "none"]

Zeros(n) == [i \in 1..n |-> 0]

\* row-major index of cell (x, y)
Index(cfg, x, y) == y * cfg.width + x

Cell(buf, cfg, x, y) == buf[Index(cfg, x, y) + 1]

Cells(cfg) == (0..(cfg.width - 1)) \X (0..(cfg.height - 1))

(*************************** generate.rs: RawData ***************************)
\* A RawData descriptor: explicit live-cell coordinates plus a translation.
RawData(positions, x_offset, y_offset) ==
    [kind |-> "raw", positions |-> positions,
     x_offset |-> x_offset, y_offset |-> y_offset]

\* Mutation of RawIndex: x and y exchanged.
RawIndexTransposed(d, cfg, p) ==
    (p[1] + d.x_offset) * cfg.width + (p[2] + d.y_offset)

\* ((y + self.y_offset) * config.width + (x + self.x_offset)) as usize
RawIndex(d, cfg, p) ==
    (p[2] + d.y_offset) * cfg.width + (p[1] + d.x_offset)

\* for (x, y) in self.positions { data[index] = 1; }  -- an index past the
\* end of the Vec panics.
RECURSIVE RawDataLoop(_, _, _, _)
RawDataLoop(d, cfg, dat, k) ==
    IF k > Len(d.positions)
    THEN [panic |-> "none", data |-> dat]
    ELSE LET index == RawIndex(d, cfg, d.positions[k])
         IN  IF index >= Len(dat)
             THEN [panic |-> "index out of bounds", data |-> <<>>]
             ELSE RawDataLoop(d, cfg, [dat EXCEPT ![index + 1] = 1], k + 1)

RawDataGenerate(d, cfg) ==
    RawDataLoop(d, cfg, Zeros(cfg.width * cfg.height), 1)

(************************** generate.rs: Plaintext *************************)
\* A Plaintext descriptor; file is what fs::read_to_string finds at source.
Plaintext(file, x_offset, y_offset) ==
    [kind |-> "text", file |-> file,
     x_offset |-> x_offset, y_offset |-> y_offset]

Unreadable == [readable |-> FALSE, text |-> <<>>]

File(text) == [readable |-> TRUE, text |-> text]

\* str::lines(): split at "\n"; a final line ending adds no empty line.
RECURSIVE SplitLines(_, _, _)
SplitLines(text, k, cur) ==
    IF k > Len(text)
    THEN (IF cur = <<>> THEN <<>> ELSE <<cur>>)
    ELSE IF text[k] = "\n"
         THEN <<cur>> \o SplitLines(text, k + 1, <<>>)
         ELSE SplitLines(text, k + 1, Append(cur, text[k]))

Lines(text) == SplitLines(text, 1, <<>>)

StartsWithBang(line) == line # <<>> /\ line[1] = "!"

RECURSIVE KeepCommentsAsRows(_)
\* Mutation of FilterComments: a comment line still takes up a row.
KeepCommentsAsRows(lines) ==
    IF lines = <<>> THEN <<>>
    ELSE (IF StartsWithBang(Head(lines)) THEN << <<>> >> ELSE <<Head(lines)>>)
         \o KeepCommentsAsRows(Tail(lines))

\* text.lines().filter(|x| !x.starts_with("!"))
FilterComments(lines) == SelectSeq(lines, LAMBDA l : ~StartsWithBang(l))

\* Mutation of MatchChar: any other character read as a dead cell.
MatchCharLenient(chr) ==
    IF chr = "O" THEN [panic |-> "none", value |-> 1]
    ELSE [panic |-> "none", value |-> 0]

\* match chr { '.' => 0, 'O' => 1, _ => panic!("Bad char") }
MatchChar(chr) ==
    IF chr = "." THEN [panic |-> "none", value |-> 0]
    ELSE IF chr = "O" THEN [panic |-> "none", value |-> 1]
    ELSE [panic |-> "Bad char", value |-> 0]

\* ((y as u32 + self.y_offset) * config.width + (x as u32 + self.x_offset))
PlaintextIndex(d, cfg, y, x) ==
    (y + d.y_offset) * cfg.width + (x + d.x_offset)

\* The two nested loops; lines[y][x] is character x-1 of row y-1.  The
\* assigned value is evaluated before the indexing of data.
RECURSIVE PlaintextLoop(_, _, _, _, _, _)
PlaintextLoop(d, cfg, lines, dat, y, x) ==
    IF y > Len(lines)
    THEN [panic |-> "none", data |-> dat]
    ELSE IF x > Len(lines[y])
    THEN PlaintextLoop(d, cfg, lines, dat, y + 1, 1)
    ELSE LET index == PlaintextIndex(d, cfg, y - 1, x - 1)
             m == MatchChar(lines[y][x])
         IN  IF m.panic # "none"
             THEN [panic |-> m.panic, data |-> <<>>]
             ELSE IF index >= Len(dat)
             THEN [panic |-> "index out of bounds", data |-> <<>>]
             ELSE PlaintextLoop(d, cfg, lines,
                                [dat EXCEPT ![index + 1] = m.value], y, x + 1)

PlaintextGenerate(d, cfg) ==
    IF ~d.file.readable
    THEN [panic |-> "read_to_string: Err", data |-> <<>>]
    ELSE PlaintextLoop(d, cfg, FilterComments(Lines(d.file.text)),
                       Zeros(cfg.width * cfg.height), 1, 1)

(*************************** generate.rs: Random ***************************)
Random(p) == [kind |-> "random", p |-> p]

\* rng.gen_bool(p) on rand::thread_rng(): the generator is seeded from
\* operating-system entropy, so each draw is any value p allows.
GenBool(p) ==
    IF p = "0.0" THEN {0} ELSE IF p = "1.0" THEN {1} ELSE {0, 1}

\* (0..(config.width * config.height)).map(|_| rng.gen_bool(self.0) as u32)
RandomGenerate(d, cfg) == [1..(cfg.width * cfg.height) -> GenBool(d.p)]

(************************** shaders/life.wgsl ******************************)
\* Number of live cells among the 8 neighbours of (x, y), coordinates taken
\* modulo width and height.
LiveNeighbours(buf, cfg, x, y) ==
    LET N(dx, dy) == Cell(buf, cfg, (x + dx + cfg.width) % cfg.width,
                                    (y + dy + cfg.height) % cfg.height)
    IN  N(-1, -1) + N(0, -1) + N(1, -1)
      + N(-1,  0)            + N(1,  0)
      + N(-1,  1) + N(0,  1) + N(1,  1)

\* One kernel invocation: the next state of cell (x, y).
KernelCell(buf, cfg, x, y) ==
    LET n == LiveNeighbours(buf, cfg, x, y)
    IN  IF Cell(buf, cfg, x, y) = 1
        THEN (IF n = 2 \/ n = 3 THEN 1 ELSE 0)
        ELSE (IF n = 3 THEN 1 ELSE 0)

(****************************** Life (engine) ******************************)
\* Mutation of XGroups: the grid height used for the horizontal group count.
XGroupsFromHeight(cfg) == cfg.height \div WORKGROUP_SIZE_X

\* let x_groups = self.config.width / WORKGROUP_SIZE.0;
XGroups(cfg) == cfg.width \div WORKGROUP_SIZE_X

\* Mutation of YGroups: an off-by-one in the rounding.
YGroupsOneShort(cfg) == (cfg.height - 1) \div WORKGROUP_SIZE_Y

\* let y_groups = self.config.height / WORKGROUP_SIZE.1;
YGroups(cfg) == cfg.height \div WORKGROUP_SIZE_Y

\* Cell (x, y) has a kernel invocation in dispatch_workgroups(x_groups,
\* y_groups, 1) with workgroups of WORKGROUP_SIZE invocations.
Invoked(cfg, x, y) ==
    /\ x < XGroups(cfg) * WORKGROUP_SIZE_X
    /\ y < YGroups(cfg) * WORKGROUP_SIZE_Y

\* The compute pass: every invocation reads inp and writes its own cell of
\* out; cells without an invocation keep what out held.
Dispatch(inp, out, cfg) ==
    [i \in 1..Len(out) |->
        LET x == (i - 1) % cfg.width
            y == (i - 1) \div cfg.width
        IN  IF Invoked(cfg, x, y) THEN KernelCell(inp, cfg, x, y) ELSE out[i]]

\* Mutation of CopyBufferToBuffer: the size taken as a cell count of which
\* only a quarter is copied.
CopyBufferQuarter(src, dst, size) ==
    [i \in 1..Len(dst) |->
        IF i <= (size \div SIZE_OF_U32) \div SIZE_OF_U32 THEN src[i] ELSE dst[i]]

\* encoder.copy_buffer_to_buffer(src, 0, dst, 0, size)
CopyBufferToBuffer(src, dst, size) ==
    [i \in 1..Len(dst) |-> IF i <= size \div SIZE_OF_U32 THEN src[i] ELSE dst[i]]

\* The cells of a buffer of n cells that have a kernel invocation.
InvokedIndices(cfg, n) ==
    {i \in 1..n : Invoked(cfg, (i - 1) % cfg.width, (i - 1) \div cfg.width)}

\* The cells of a destination of n cells that a copy of size bytes writes.
CopiedIndices(n, size) == {i \in 1..n : i <= size \div SIZE_OF_U32}

\* Life::new: no check relates data.len() to config; the buffers take the
\* size of data.  Buffers made by create_buffer start zeroed (wgpu).
New ==
    /\ pc = "generated"
    /\ pc' = "engine"
    /\ data_size' = Len(data) * SIZE_OF_U32
    /\ input_buffer' = data
    /\ output_buffer' = Zeros(Len(data))
    /\ staging_buffer' = Zeros(Len(data))
    /\ steps' = 0
    /\ result' = None
    /\ init_next' = 1..Len(data)
    /\ init_seen' = {}
    /\ UNCHANGED <<config, desc, data, panic, evals, gpuvars, genvars>>

\* Life::step: compute pass, copy output -> input, copy output -> staging,
\* submitted as one command buffer.
Step ==
    /\ pc = "engine"
    /\ steps < MaxSteps
    /\ LET next == Dispatch(input_buffer, output_buffer, config)
       IN  /\ output_buffer' = next
           /\ input_buffer' = CopyBufferToBuffer(next, input_buffer, data_size)
           /\ staging_buffer' = CopyBufferToBuffer(next, staging_buffer, data_size)
    /\ steps' = steps + 1
    /\ result' = None
    /\ init_next' = init_next \ InvokedIndices(config, Len(output_buffer))
    /\ init_seen' = init_seen \cup
                      (init_next' \cap CopiedIndices(Len(input_buffer), data_size))
    /\ gen_out' = steps + 1
    /\ gen_in' = steps + 1
    /\ gen_staging' = steps + 1
    /\ UNCHANGED <<pc, config, desc, data, panic, data_size, evals, gpuvars>>

\* The result map_async hands to its callback once device.poll returns.
MapResults == {"Ok", "Err"}

\* Life::output: map the staging buffer and return its contents; anything
\* but a successful map panics.
Output ==
    /\ pc = "engine"
    /\ \E r \in MapResults :
         IF r = "Ok"
         THEN /\ result' = staging_buffer
              /\ UNCHANGED <<pc, panic>>
         ELSE /\ pc' = "panicked"
              /\ panic' = "Failed to run compute shader!"
              /\ UNCHANGED result
    /\ UNCHANGED <<config, desc, data, input_buffer, output_buffer,
                   staging_buffer, data_size, steps, evals,
                   ghostvars, gpuvars, genvars>>

\* generate(descriptor, config) for a RawData descriptor drawn from descs.
GenerateRawData(descs) ==
    /\ pc = "start"
    /\ \E d \in descs :
         LET r == RawDataGenerate(d, config)
         IN  /\ desc' = d
             /\ data' = r.data
             /\ panic' = r.panic
             /\ pc' = IF r.panic = "none" THEN "generated" ELSE "panicked"
    /\ UNCHANGED <<config, input_buffer, output_buffer, staging_buffer,
                   data_size, steps, result, evals,
                   ghostvars, gpuvars, genvars>>

(************************ the program: run() *******************************)
\* Engine configurations: whole tiles plus a remainder along one axis.
TiledExtents(wg) ==
    {wg * g + e : g \in 1..MaxGroups, e \in 0..MaxRem}

EngineConfigs ==
    {[width |-> w, height |-> WORKGROUP_SIZE_Y] : w \in TiledExtents(WORKGROUP_SIZE_X)}
    \cup
    {[width |-> WORKGROUP_SIZE_X, height |-> h] : h \in TiledExtents(WORKGROUP_SIZE_Y)}

\* Seeds: every subset of a plus-shaped neighbourhood, placed across the
\* wrapped corner, in the middle and at the far corner of the grid.
Plus == {<<0, 0>>, <<-1, 0>>, <<1, 0>>, <<0, -1>>, <<0, 1>>}

Anchors(cfg) ==
    {<<0, 0>>, <<cfg.width \div 2, cfg.height \div 2>>,
     <<cfg.width - 1, cfg.height - 1>>}

PlusAt(cfg, a) ==
    {<<(a[1] + d[1] + cfg.width) % cfg.width,
       (a[2] + d[2] + cfg.height) % cfg.height>> : d \in Plus}

SeedSets(cfg) == UNION {SUBSET PlusAt(cfg, a) : a \in Anchors(cfg)}

RECURSIVE SetToSeq(_)
SetToSeq(S) ==
    IF S = {} THEN <<>>
    ELSE LET m == CHOOSE p \in S :
                    \A q \in S : p[2] < q[2] \/ (p[2] = q[2] /\ p[1] <= q[1])
         IN  <<m>> \o SetToSeq(S \ {m})

SeedDescs(cfg) == {RawData(SetToSeq(S), 0, 0) : S \in SeedSets(cfg)}

Seed == GenerateRawData(SeedDescs(config))

\* No command submitted, nothing mapped, no output() under way; the buffers
\* an engine will get are as created.
Idle == [op |-> "idle", step |-> 0]

NoDevice ==
    /\ init_next = {}
    /\ init_seen = {}
    /\ queue = <<>>
    /\ gpu = Idle
    /\ map_state = "unmapped"
    /\ out_pc = "idle"
    /\ notify = "none"
    /\ gen_in = 0
    /\ gen_out = -1
    /\ gen_staging = -1

Init ==
    /\ pc = "start"
    /\ config \in EngineConfigs
    /\ desc = NoDesc
    /\ data = <<>>
    /\ panic = "none"
    /\ input_buffer = <<>>
    /\ output_buffer = <<>>
    /\ staging_buffer = <<>>
    /\ data_size = 0
    /\ steps = 0
    /\ result = None
    /\ evals = <<>>
    /\ NoDevice

Next == Seed \/ New \/ Step \/ Output

Spec == Init /\ [][Next]_vars

(************* the device queue: step() and output() in steps **************)
\* step() only submits its command buffer and output() waits for the device:
\* here the device executes the submitted commands one after the other, in
\* submission order (the ordering wgpu gives the commands of one queue),
\* while the control thread goes on.

\* Mutation of StepCommands: the copies recorded before the compute pass.
StepCommandsCopyFirst(k) ==
    <<[op |-> "copy_in", step |-> k],
      [op |-> "copy_staging", step |-> k],
      [op |-> "dispatch", step |-> k]>>

\* Mutation of StepCommands: no copy into the staging buffer.
StepCommandsNoStaging(k) ==
    <<[op |-> "dispatch", step |-> k],
      [op |-> "copy_in", step |-> k]>>

\* The command buffer of the k-th step(): compute pass, copy output ->
\* input, copy output -> staging.
StepCommands(k) ==
    <<[op |-> "dispatch", step |-> k],
      [op |-> "copy_in", step |-> k],
      [op |-> "copy_staging", step |-> k]>>

\* The control thread is between two calls (output() is not under way).
BetweenCalls == out_pc \in {"idle", "returned"}

\* Life::step as the control thread sees it: encode and queue.submit.  A
\* submission that uses a buffer which is still mapped is a validation
\* error, which ends the process.
SubmitStep ==
    /\ pc = "engine"
    /\ BetweenCalls
    /\ steps < MaxSteps
    /\ IF map_state = "unmapped"
       THEN /\ queue' = queue \o StepCommands(steps + 1)
            /\ steps' = steps + 1
            /\ result' = None
            /\ UNCHANGED <<pc, panic>>
       ELSE /\ pc' = "panicked"
            /\ panic' = "Buffer is still mapped"
            /\ UNCHANGED <<queue, steps, result>>
    /\ UNCHANGED <<config, desc, data, input_buffer, output_buffer,
                   staging_buffer, data_size, evals, ghostvars,
                   gpu, map_state, out_pc, notify, genvars>>

\* The device takes the oldest submitted command into execution.
GpuBegin ==
    /\ pc = "engine"
    /\ gpu = Idle
    /\ queue # <<>>
    /\ gpu' = Head(queue)
    /\ queue' = Tail(queue)
    /\ UNCHANGED <<pc, config, desc, data, panic, input_buffer, output_buffer,
                   staging_buffer, data_size, steps, result, evals, ghostvars,
                   map_state, out_pc, notify, genvars>>

\* The compute pass in execution completes: output_buffer holds the kernel's
\* results for input_buffer.
DispatchDone ==
    /\ pc = "engine"
    /\ gpu.op = "dispatch"
    /\ output_buffer' = Dispatch(input_buffer, output_buffer, config)
    /\ gen_out' = gen_in + 1
    /\ init_next' = init_next \ InvokedIndices(config, Len(output_buffer))
    /\ gpu' = Idle
    /\ UNCHANGED <<pc, config, desc, data, panic, input_buffer, staging_buffer,
                   data_size, steps, result, evals, init_seen, queue,
                   map_state, out_pc, notify, gen_in, gen_staging>>

\* The copy output -> input in execution completes.
CopyInDone ==
    /\ pc = "engine"
    /\ gpu.op = "copy_in"
    /\ input_buffer' = CopyBufferToBuffer(output_buffer, input_buffer, data_size)
    /\ gen_in' = gen_out
    /\ init_seen' = init_seen \cup
                      (init_next \cap CopiedIndices(Len(input_buffer), data_size))
    /\ gpu' = Idle
    /\ UNCHANGED <<pc, config, desc, data, panic, output_buffer, staging_buffer,
                   data_size, steps, result, evals, init_next, queue,
                   map_state, out_pc, notify, gen_out, gen_staging>>

\* The copy output -> staging in execution completes.
CopyStagingDone ==
    /\ pc = "engine"
    /\ gpu.op = "copy_staging"
    /\ staging_buffer' =
          CopyBufferToBuffer(output_buffer, staging_buffer, data_size)
    /\ gen_staging' = gen_out
    /\ init_seen' = init_seen \cup
                      (init_next \cap CopiedIndices(Len(staging_buffer), data_size))
    /\ gpu' = Idle
    /\ UNCHANGED <<pc, config, desc, data, panic, input_buffer, output_buffer,
                   data_size, steps, result, evals, init_next, queue,
                   map_state, out_pc, notify, gen_in, gen_out>>

\* What receiver.receive().await can yield: the callback's result, or
\* nothing when the sender is gone without having sent.
ChannelResults == MapResults \cup {"Closed"}

\* output(), first part: buffer_slice.map_async(MapMode::Read, callback).
\* A request on a buffer that is not unmapped can only fail.
OutputMapAsync ==
    /\ pc = "engine"
    /\ BetweenCalls
    /\ map_state' = IF map_state = "unmapped" THEN "pending" ELSE map_state
    /\ out_pc' = "poll"
    /\ UNCHANGED <<pc, config, desc, data, panic, input_buffer, output_buffer,
                   staging_buffer, data_size, steps, result, evals, ghostvars,
                   queue, gpu, notify, genvars>>

\* Mutation of DeviceDone: the poll returns without waiting.
PollReturnsAtOnce == TRUE

\* device.poll(Maintain::Wait) returns when every submitted command has
\* completed.
DeviceDone == queue = <<>> /\ gpu = Idle

\* output(), second part: the poll returns, the map request is resolved and
\* its callback has sent the result.
OutputPoll ==
    /\ pc = "engine"
    /\ out_pc = "poll"
    /\ DeviceDone
    /\ \E r \in (IF map_state = "pending" THEN ChannelResults ELSE {"Err"}) :
         /\ notify' = r
         /\ map_state' = IF r = "Ok" THEN "mapped"
                         ELSE IF r = "Err" /\ map_state = "pending" THEN "unmapped"
                         ELSE map_state
    /\ out_pc' = "receive"
    /\ UNCHANGED <<pc, config, desc, data, panic, input_buffer, output_buffer,
                   staging_buffer, data_size, steps, result, evals, ghostvars,
                   queue, gpu, genvars>>

\* Mutation of ReceivedOk: any outcome of the receive taken as a success.
ReceivedAny(n) == TRUE

\* if let Some(Ok(())) = receiver.receive().await
ReceivedOk(n) == n = "Ok"

\* Mutation of StagingUnmap: the buffer is left mapped.
StagingStaysMapped == "mapped"

\* self.staging_buffer.unmap()
StagingUnmap == "unmapped"

\* output(), last part: on a successful map read the mapped range into a
\* Vec, drop the view, unmap and return the Vec; panic otherwise.
OutputReceive ==
    /\ pc = "engine"
    /\ out_pc = "receive"
    /\ IF ReceivedOk(notify)
       THEN /\ result' = staging_buffer
            /\ map_state' = StagingUnmap
            /\ out_pc' = "returned"
            /\ notify' = "none"
            /\ UNCHANGED <<pc, panic>>
       ELSE /\ pc' = "panicked"
            /\ panic' = "Failed to run compute shader!"
            /\ UNCHANGED <<result, map_state, out_pc, notify>>
    /\ UNCHANGED <<config, desc, data, input_buffer, output_buffer,
                   staging_buffer, data_size, steps, evals, ghostvars,
                   queue, gpu, genvars>>

\* Configurations of one workgroup, with and without remainder columns.
QueueConfigs ==
    {[width |-> WORKGROUP_SIZE_X + e, height |-> WORKGROUP_SIZE_Y] : e \in 0..MaxRem}

\* Seeds: every subset of the plus-shaped neighbourhood across the wrapped
\* corner.
QueueSeedDescs(cfg) ==
    {RawData(SetToSeq(S), 0, 0) : S \in SUBSET PlusAt(cfg, <<0, 0>>)}

SeedQueue == GenerateRawData(QueueSeedDescs(config))

InitQueue ==
    /\ pc = "start"
    /\ config \in QueueConfigs
    /\ desc = NoDesc
    /\ data = <<>>
    /\ panic = "none"
    /\ input_buffer = <<>>
    /\ output_buffer = <<>>
    /\ staging_buffer = <<>>
    /\ data_size = 0
    /\ steps = 0
    /\ result = None
    /\ evals = <<>>
    /\ NoDevice

NextQueue ==
    \/ SeedQueue
    \/ New
    \/ SubmitStep
    \/ GpuBegin
    \/ DispatchDone
    \/ CopyInDone
    \/ CopyStagingDone
    \/ OutputMapAsync
    \/ OutputPoll
    \/ OutputReceive

SpecQueue == InitQueue /\ [][NextQueue]_vars

(***************************************************************************)
(* Reference semantics used by the properties: the toroidal Life rule      *)
(* stated over the set of neighbouring coordinates.                        *)
(***************************************************************************)
TileAligned(cfg) ==
    /\ cfg.width % WORKGROUP_SIZE_X = 0
    /\ cfg.height % WORKGROUP_SIZE_Y = 0

LiveSet(grid, cfg) == {c \in Cells(cfg) : Cell(grid, cfg, c[1], c[2]) = 1}

NeighbourCoords(cfg, x, y) ==
    {<<(x + dx) % cfg.width, (y + dy) % cfg.height>> :
        dx \in {cfg.width - 1, 0, 1}, dy \in {cfg.height - 1, 0, 1}} \ {<<x, y>>}

RefAlive(grid, cfg, x, y) ==
    LET n == Cardinality({c \in NeighbourCoords(cfg, x, y) :
                             Cell(grid, cfg, c[1], c[2]) = 1})
    IN  \/ Cell(grid, cfg, x, y) = 1 /\ n \in {2, 3}
        \/ Cell(grid, cfg, x, y) = 0 /\ n = 3

RefStep(grid, cfg) ==
    [i \in 1..(cfg.width * cfg.height) |->
        IF RefAlive(grid, cfg, (i - 1) % cfg.width, (i - 1) \div cfg.width)
        THEN 1 ELSE 0]

RECURSIVE RefN(_, _, _)
RefN(grid, cfg, n) == IF n = 0 THEN grid ELSE RefN(RefStep(grid, cfg), cfg, n - 1)

\* The live cells are three adjacent cells of one row or of one column.
IsBlinker(grid, cfg) ==
    LET L == LiveSet(grid, cfg)
    IN  /\ Cardinality(L) = 3
        /\ \E c \in L :
             \/ L = {<<(c[1] + cfg.width - 1) % cfg.width, c[2]>>, c,
                     <<(c[1] + 1) % cfg.width, c[2]>>}
             \/ L = {<<c[1], (c[2] + cfg.height - 1) % cfg.height>>, c,
                     <<c[1], (c[2] + 1) % cfg.height>>}

(******************************* C1 ****************************************)
\* C1: on a grid whose width and height are multiples of the tile extents,
\* every step() leaves in the current buffer exactly the toroidal Life
\* transition of the current buffer as it was before the step: each cell is
\* alive iff it was alive with 2 or 3 live neighbours or dead with 3, all
\* neighbours read from the pre-step buffer.
C1_StepIsLifeTransition ==
    [][(steps' = steps + 1 /\ TileAligned(config))
        => /\ Len(input_buffer') = config.width * config.height
           /\ \A c \in Cells(config) :
                Cell(input_buffer', config, c[1], c[2]) =
                    IF RefAlive(input_buffer, config, c[1], c[2]) THEN 1 ELSE 0]_vars

\* A stepped engine on a tile-aligned grid of more than one workgroup whose
\* generation changed: cells were born and cells died in the steps taken.
C1_Witness ==
    /\ pc = "engine"
    /\ steps = 2
    /\ TileAligned(config)
    /\ XGroups(config) > 1
    /\ LiveSet(input_buffer, config) # {}
    /\ LiveSet(input_buffer, config) # LiveSet(data, config)
    /\ \E c \in LiveSet(data, config) : c[1] >= WORKGROUP_SIZE_X

(******************************* C2 ****************************************)
\* C2: a readback taken after N calls to step() is the seed advanced by
\* exactly N applications of the reference transition.
C2_ReadbackIsNthGeneration ==
    (pc = "engine" /\ TileAligned(config) /\ result # None)
        => result = RefN(data, config, steps)

\* What the code does give: the same, once at least one step was taken.
ReadbackAfterStepIsNthGeneration ==
    (pc = "engine" /\ TileAligned(config) /\ result # None /\ steps >= 1)
        => result = RefN(data, config, steps)

(******************************* C3 ****************************************)
\* C3: in every engine state, Ready included, a completed readback has
\* width*height cells and equals the current buffer; before the first step
\* it is the seed.
C3_ReadbackIsCurrent ==
    (pc = "engine" /\ result # None)
        => /\ Len(result) = config.width * config.height
           /\ result = input_buffer

(******************************* C10 ***************************************)
\* C10 as stated: for every blinker seed on the engine's grid, the current
\* buffer differs from the seed after one step and equals it after two.
C10_BlinkerPeriodTwoAnyConfig ==
    (pc = "engine" /\ steps \in {1, 2} /\ IsBlinker(data, config))
        => /\ steps = 1 => input_buffer # data
           /\ steps = 2 => input_buffer = data

\* C10 amended: the same on every grid whose width and height are multiples
\* of the tile extents.
C10_BlinkerPeriodTwo ==
    (pc = "engine" /\ steps \in {1, 2} /\ TileAligned(config) /\ IsBlinker(data, config))
        => /\ steps = 1 => input_buffer # data
           /\ steps = 2 => input_buffer = data

\* A blinker lying across the wrapped left edge has gone through two steps.
C10_Witness ==
    /\ pc = "engine"
    /\ steps = 2
    /\ TileAligned(config)
    /\ IsBlinker(data, config)
    /\ {<<config.width - 1, 0>>, <<0, 0>>} \subseteq LiveSet(data, config)
    /\ input_buffer = data

(***************************************************************************)
(* The generators on their own: generate(descriptor, config) applied to    *)
(* descriptors drawn from bounded sets, on small grids.                    *)
(***************************************************************************)
GenConfigs ==
    {[width |-> w, height |-> h] : w \in 1..GenMaxWidth, h \in 1..GenMaxHeight}

SeqsUpTo(S, n) == UNION {[1..k -> S] : k \in 0..n}

Points == (0..MaxCoord) \X (0..MaxCoord)

RawDescs ==
    {RawData(ps, xo, yo) :
        ps \in SeqsUpTo(Points, MaxPositions),
        xo \in 0..MaxOffset, yo \in 0..MaxOffset}

Chars == {".", "O", "!", "x", "\n"}

PlaintextDescs ==
    {Plaintext(f, xo, yo) :
        f \in {Unreadable} \cup {File(t) : t \in SeqsUpTo(Chars, MaxText)},
        xo \in 0..MaxOffset, yo \in 0..MaxOffset}

Probabilities == {"0.0", "0.5", "1.0"}

GenerateRaw == GenerateRawData(RawDescs)

\* generate(descriptor, config) for a Plaintext descriptor.
GeneratePlaintext ==
    /\ pc = "start"
    /\ \E d \in PlaintextDescs :
         LET r == PlaintextGenerate(d, config)
         IN  /\ desc' = d
             /\ data' = r.data
             /\ panic' = r.panic
             /\ pc' = IF r.panic = "none" THEN "generated" ELSE "panicked"
    /\ UNCHANGED <<config, input_buffer, output_buffer, staging_buffer,
                   data_size, steps, result, evals,
                   ghostvars, gpuvars, genvars>>

\* generate(descriptor, config) for a Random descriptor; the function can be
\* evaluated again, and every evaluation is logged.
GenerateRandom ==
    /\ pc \in {"start", "generated"}
    /\ Len(evals) < MaxEvals
    /\ \E p \in Probabilities :
         \E grid \in RandomGenerate(Random(p), config) :
            /\ desc' = Random(p)
            /\ data' = grid
            /\ evals' = Append(evals, <<p, grid>>)
    /\ pc' = "generated"
    /\ UNCHANGED <<config, panic, input_buffer, output_buffer, staging_buffer,
                   data_size, steps, result, ghostvars, gpuvars, genvars>>

InitGen ==
    /\ pc = "start"
    /\ config \in GenConfigs
    /\ desc = NoDesc
    /\ data = <<>>
    /\ panic = "none"
    /\ input_buffer = <<>>
    /\ output_buffer = <<>>
    /\ staging_buffer = <<>>
    /\ data_size = 0
    /\ steps = 0
    /\ result = None
    /\ evals = <<>>
    /\ NoDevice

NextGen == GenerateRaw \/ GeneratePlaintext

SpecGen == InitGen /\ [][NextGen]_vars

NextRandom == GenerateRandom

SpecRandom == InitGen /\ [][NextRandom]_vars

\* Life::new called with a Vec of any length.
InitNew ==
    /\ pc = "generated"
    /\ config \in GenConfigs
    /\ desc = NoDesc
    /\ data \in SeqsUpTo({0, 1}, MaxDataLen) \ {<<>>}
    /\ panic = "none"
    /\ input_buffer = <<>>
    /\ output_buffer = <<>>
    /\ staging_buffer = <<>>
    /\ data_size = 0
    /\ steps = 0
    /\ result = None
    /\ evals = <<>>
    /\ NoDevice

NextNew == New

SpecNew == InitNew /\ [][NextNew]_vars

(******************************* C4 ****************************************)
\* C4: an engine exists only if its buffers hold exactly width*height
\* cells; new() yields no engine for a grid of any other length.
C4_EngineOnlyForMatchingLength ==
    pc = "engine"
        => /\ Len(data) = config.width * config.height
           /\ Len(input_buffer) = config.width * config.height
           /\ Len(output_buffer) = config.width * config.height

(******************************* C5 ****************************************)
\* The translated point of entry k of a RawData descriptor.
Translated(d, k) ==
    <<d.positions[k][1] + d.x_offset, d.positions[k][2] + d.y_offset>>

RawInBounds(d, cfg) ==
    \A k \in 1..Len(d.positions) :
        Translated(d, k)[1] < cfg.width /\ Translated(d, k)[2] < cfg.height

\* C5: for a RawData descriptor whose translated points are all in-bounds,
\* generate returns a grid of width*height cells in which exactly the
\* cells at the translated points are 1 and all others 0.
C5_RawDataPlacesListedCells ==
    (desc.kind = "raw" /\ RawInBounds(desc, config))
        => /\ pc = "generated"
           /\ Len(data) = config.width * config.height
           /\ \A c \in Cells(config) :
                Cell(data, config, c[1], c[2]) =
                    IF \E k \in 1..Len(desc.positions) : Translated(desc, k) = c
                    THEN 1 ELSE 0

\* Two distinct translated in-bounds points, one of them off the first row
\* and off the diagonal, were placed with a non-zero offset.
C5_Witness ==
    /\ desc.kind = "raw"
    /\ RawInBounds(desc, config)
    /\ pc = "generated"
    /\ Len(desc.positions) = 2
    /\ desc.x_offset > 0
    /\ Translated(desc, 1) # Translated(desc, 2)
    /\ \E k \in 1..2 : Translated(desc, k)[2] > 0
                       /\ Translated(desc, k)[1] # Translated(desc, k)[2]

(******************************* C7 / C8 ***********************************)
\* Positions of the text read as lines, without splitting it: the start of
\* the line holding character k, whether that line is a comment, and the
\* row and column the character stands for.
LineStart(text, k) ==
    CHOOSE s \in 1..k :
        /\ s = 1 \/ text[s - 1] = "\n"
        /\ \A j \in s..(k - 1) : text[j] # "\n"

IsLineStart(text, s) == s = 1 \/ text[s - 1] = "\n"

OnCommentLine(text, k) == text[LineStart(text, k)] = "!"

\* Characters that stand for cells: not a line break, not on a comment line.
PatternChars(text) ==
    {k \in 1..Len(text) : text[k] # "\n" /\ ~OnCommentLine(text, k)}

RowOf(text, k) ==
    Cardinality({s \in 1..(LineStart(text, k) - 1) :
                    IsLineStart(text, s) /\ text[s] # "!"})

ColOf(text, k) == k - LineStart(text, k)

HasBadChar(text) == \E k \in PatternChars(text) : text[k] \notin {".", "O"}

\* C7: a character other than '.' or 'O' on a line not starting with '!'
\* makes generate fail with no grid, wherever it stands and whatever the
\* offset; a "Bad char" failure is never due to a comment line.
C7_BadCharFails ==
    (desc.kind = "text" /\ desc.file.readable)
        => /\ HasBadChar(desc.file.text) => (pc = "panicked" /\ data = <<>>)
           /\ panic = "Bad char" => HasBadChar(desc.file.text)

\* A bad character on the second row, after a comment line that holds
\* characters of its own, made generate fail.
C7_Witness ==
    /\ desc.kind = "text"
    /\ desc.file.readable
    /\ pc = "panicked"
    /\ panic = "Bad char"
    /\ \E k \in PatternChars(desc.file.text) :
          desc.file.text[k] = "x" /\ LineStart(desc.file.text, k) > 1
    /\ desc.x_offset > 0

TextInBounds(d, cfg) ==
    \A k \in PatternChars(d.file.text) :
        /\ d.x_offset + ColOf(d.file.text, k) < cfg.width
        /\ d.y_offset + RowOf(d.file.text, k) < cfg.height

\* C8: for a well-formed source placed in-bounds, cell (x_offset + c,
\* y_offset + r) is alive iff character c of non-comment line r is 'O';
\* every other cell, also right of a short line, is dead.
C8_PlaintextPlacesRows ==
    (desc.kind = "text" /\ desc.file.readable /\ ~HasBadChar(desc.file.text)
        /\ TextInBounds(desc, config))
        => /\ pc = "generated"
           /\ Len(data) = config.width * config.height
           /\ \A c \in Cells(config) :
                Cell(data, config, c[1], c[2]) =
                    IF \E k \in PatternChars(desc.file.text) :
                          /\ desc.file.text[k] = "O"
                          /\ c[1] = desc.x_offset + ColOf(desc.file.text, k)
                          /\ c[2] = desc.y_offset + RowOf(desc.file.text, k)
                    THEN 1 ELSE 0

\* A source with a comment line before its only row was placed: the row
\* landed on row y_offset, not one below.
C8_Witness ==
    /\ desc.kind = "text"
    /\ desc.file.readable
    /\ pc = "generated"
    /\ TextInBounds(desc, config)
    /\ desc.file.text = <<"!", "\n", ".", "O">>
    /\ desc.y_offset = 1
    /\ Cell(data, config, 1 + desc.x_offset, 1) = 1

(******************************* C6 ****************************************)
\* Some entry of the descriptor, after its offset, lies outside the grid.
OutOfBounds(d, cfg) ==
    \/ d.kind = "raw" /\ ~RawInBounds(d, cfg)
    \/ d.kind = "text" /\ d.file.readable /\ ~TextInBounds(d, cfg)

\* C6: a RawData or Plaintext entry that lands outside the grid makes
\* generate fail; no grid is returned (so no cell of another row is set and
\* no entry is dropped).
C6_OutOfBoundsFails ==
    OutOfBounds(desc, config) => (pc = "panicked" /\ data = <<>>)

(******************************* C9 ****************************************)
\* C9: two evaluations of the Random generator with the same p on the same
\* GridConfig give the same grid (the generator takes no seed: p and the
\* config are its whole input).
C9_RandomDeterministic ==
    \A i \in 1..Len(evals) : \A j \in 1..Len(evals) :
        evals[i][1] = evals[j][1] => evals[i][2] = evals[j][2]

(******************************* C12 ***************************************)
GridIndices(cfg) == 1..(cfg.width * cfg.height)

\* C12 as stated: for every GridConfig the engine accepts, each step's
\* dispatch writes every grid cell of next before next is copied out, so no
\* cell of current or of a readback ever holds what next was created with.
C12_NextFullyWrittenAnyConfig ==
    pc = "engine"
        => /\ init_seen \cap GridIndices(config) = {}
           /\ steps >= 1 => init_next \cap GridIndices(config) = {}

\* C12 amended: the same for every GridConfig whose width and height are
\* multiples of the tile extents.
C12_NextFullyWritten ==
    (pc = "engine" /\ TileAligned(config))
        => /\ init_seen \cap GridIndices(config) = {}
           /\ steps >= 1 => init_next \cap GridIndices(config) = {}

\* Two steps were published on a tile-aligned grid of two workgroups that
\* holds live cells.
C12_Witness ==
    /\ pc = "engine"
    /\ TileAligned(config)
    /\ config.width * config.height > WORKGROUP_SIZE_X * WORKGROUP_SIZE_Y
    /\ steps = 2
    /\ init_next = {}
    /\ LiveSet(input_buffer, config) # {}

(******************************* C13 ***************************************)
\* The cells beyond the last whole tile.
RemainderCells(cfg) == {c \in Cells(cfg) : ~Invoked(cfg, c[1], c[2])}

\* C13 as stated: after any number of steps a remainder cell of the current
\* buffer still has its seed value.
C13_RemainderKeepsSeed ==
    pc = "engine"
        => \A c \in RemainderCells(config) :
              Cell(input_buffer, config, c[1], c[2]) = Cell(data, config, c[1], c[2])

\* C13 amended: a remainder cell never gets a kernel result; it has its
\* seed value until the first step, and from the first step on it is 0, the
\* value output_buffer was created with, which the whole-buffer copy puts
\* into the current buffer.
C13_RemainderZeroedByCopy ==
    pc = "engine"
        => \A c \in RemainderCells(config) :
              /\ Index(config, c[1], c[2]) + 1 \in init_next
              /\ Cell(input_buffer, config, c[1], c[2]) =
                    IF steps = 0 THEN Cell(data, config, c[1], c[2]) ELSE 0

\* A remainder cell that was alive in the seed is dead after a step.
C13_Witness ==
    /\ pc = "engine"
    /\ steps >= 1
    /\ \E c \in RemainderCells(config) :
          /\ Cell(data, config, c[1], c[2]) = 1
          /\ Cell(input_buffer, config, c[1], c[2]) = 0

(******************************* C11 ***************************************)
\* The generation the staging buffer holds once every submitted step has
\* completed (-1: as created).
LastSubmitted == IF steps = 0 THEN -1 ELSE steps

\* C11: output() returns a grid only after a successful map notification
\* that came when the device had completed every submitted command, the
\* copy into the staging buffer included, and the grid is the content of
\* the staging buffer; with a failed or missing notification it panics and
\* returns no grid.
C11_NoGridBeforeCopyLanded ==
    [][out_pc = "receive"
          => IF notify = "Ok"
             THEN /\ queue = <<>>
                  /\ gpu = Idle
                  /\ map_state = "mapped"
                  /\ gen_staging = LastSubmitted
                  /\ result' = staging_buffer
                  /\ pc' = "engine"
             ELSE /\ pc' = "panicked"
                  /\ result' = result]_vars

\* output() has returned the grid of the one step submitted, with live
\* cells in it.
C11_Witness ==
    /\ pc = "engine"
    /\ out_pc = "returned"
    /\ steps = 1
    /\ gen_staging = 1
    /\ result # None
    /\ LiveSet(result, config) # {}

(******************************* C14 ***************************************)
\* C14: whenever the kernel of step N+1 is in execution, step N's kernel
\* and step N's copy of next into current have completed: the current
\* buffer is generation N as a whole (on a tile-aligned grid the N-th Life
\* generation of the seed) and next is what step N wrote.
C14_StepsOrderedOnDevice ==
    gpu.op = "dispatch"
        => /\ gen_in = gpu.step - 1
           /\ gen_out = (IF gpu.step = 1 THEN -1 ELSE gpu.step - 1)
           /\ gpu.step > 1 => input_buffer = output_buffer
           /\ TileAligned(config)
                 => input_buffer = RefN(data, config, gpu.step - 1)

\* The kernel of the second step is in execution, both steps having been
\* submitted with no output() (the only wait) ever called.
C14_Witness ==
    /\ gpu.op = "dispatch"
    /\ gpu.step = 2
    /\ steps = 2
    /\ out_pc = "idle"
    /\ LiveSet(input_buffer, config) # {}

(******************************* C15 ***************************************)
\* C15: a new step's kernel starts writing next only after the readback
\* copy of the previous generation has completed, the staging buffer is
\* mapped only when the device has nothing submitted or in execution, and a
\* returned grid is the staging buffer as a whole, holding the one
\* generation of the last submitted step (on a tile-aligned grid that Life
\* generation of the seed).
C15_ReadbackOfOneGeneration ==
    /\ (gpu.op = "dispatch" /\ gpu.step > 1)
          => /\ gen_staging = gpu.step - 1
             /\ staging_buffer = output_buffer
    /\ map_state = "mapped" => (queue = <<>> /\ gpu = Idle)
    /\ result # None
          => /\ result = staging_buffer
             /\ gen_staging = LastSubmitted
             /\ (TileAligned(config) /\ steps >= 1)
                   => result = RefN(data, config, steps)

\* output() waits in the poll while the readback copy of the second step is
\* in execution.
C15_Witness ==
    /\ out_pc = "poll"
    /\ gpu.op = "copy_staging"
    /\ gpu.step = 2
    /\ LiveSet(output_buffer, config) # {}

(******************************* C16 ***************************************)
\* C16: a step() is only ever submitted with the staging buffer unmapped:
\* between calls the buffer is unmapped, an output() that returns has had a
\* successful map and has unmapped the buffer, an output() without a
\* successful map panics, and no submission meets a mapped buffer.
C16_StagingUnmappedAtSubmit ==
    [][/\ (BetweenCalls /\ pc = "engine") => map_state = "unmapped"
       /\ steps' = steps + 1 => map_state = "unmapped"
       /\ (out_pc = "receive" /\ out_pc' = "returned")
             => (notify = "Ok" /\ map_state = "mapped" /\ map_state' = "unmapped")
       /\ (out_pc = "receive" /\ notify # "Ok") => pc' = "panicked"
       /\ panic' # "Buffer is still mapped"]_vars

\* A second step has been submitted after an output() returned a grid.
C16_Witness ==
    /\ pc = "engine"
    /\ out_pc = "returned"
    /\ result = None
    /\ steps = 2
    /\ queue # <<>>
    /\ map_state = "unmapped"

====
